---- MODULE Spec2Model ----
(***************************************************************************)
(* State machine of the photobooth page component (src/app/page.tsx):      *)
(* the screen navigation, the capture sequencer (countdown timer and       *)
(* capturePhoto), the camera stream life cycle (startCamera / stopCamera   *)
(* and the effect that drives them) and the layout compositor              *)
(* (generateFinalImage with its asynchronous image decodes).               *)
(*                                                                         *)
(* Every event handler is one action; the React effects that run after a   *)
(* state change are part of the action that made the change.               *)
(***************************************************************************)
EXTENDS Integers, Sequences, FiniteSets, TLC

VARIABLES
  currentScreen,      \* useState<Screen>
  selectedTemplate,   \* useState<Template | null>
  capturedPhotos,     \* useState<CapturedPhoto[]>
  currentPhotoIndex,  \* useState(0)
  countdown,          \* useState<number | null>
  selectedBackground, \* useState("white")
  templateStyle,      \* useState({borderWidth, spacing, cornerRadius})
  finalImageUrl,      \* useState<string>("")
  streamHeld,         \* streamRef.current # null (its tracks are running)
  videoSrc,           \* videoRef.current.srcObject is a stream
  pendingAcq,         \* getUserMedia promises not yet settled
  leaked,             \* acquired streams with running tracks that no ref holds
  timers,             \* intervals created by startCountdown and not yet cleared
  requests,           \* generateFinalImage promises whose decodes are in flight
  ctxAvailable        \* whether getContext("2d") yields a context

vars == <<currentScreen, selectedTemplate, capturedPhotos, currentPhotoIndex,
          countdown, selectedBackground, templateStyle, finalImageUrl,
          streamHeld, videoSrc, pendingAcq, leaked, timers, requests,
          ctxAvailable>>

(***************************************************************************)
(* Bounds of the model.                                                    *)
(***************************************************************************)
MaxPhotos == 3
MaxPending == 1
MaxLeaked == 1
MaxTimers == 2
MaxRequests == 2

(***************************************************************************)
(* Static configuration.                                                   *)
(***************************************************************************)
NULL == "null"

Screens == {"start", "template", "camera", "preview"}

Templates == {"strip", "grid", "collage", "single"}

photoCount(t) ==
  CASE t = "strip" -> 3
    [] t = "grid" -> 4
    [] t = "collage" -> 3
    [] t = "single" -> 1

\* The largest photoCount of a template.
MaxPhotoCount == 4

Backgrounds == {"white", "black", "gray", "pattern"}

\* countdown === null is held as 0; the code never stores 0 in countdown.
NoCountdown == 0
CountdownStart == 3

MaxBorderWidth == 10
MaxSpacing == 20

InitialBackground == "white"

InitialStyle == [borderWidth |-> 2, spacing |-> 4, cornerRadius |-> 0]

\* A captured photo is its dataUrl: BlankFrame is the encoding of the empty
\* 0x0 canvas ("data:,"), a frame f > 0 is the JPEG of live video frame f.
BlankFrame == 0
LiveFrame == 1
\* The frame a photo of an earlier session was taken of.
EarlierFrame == 2
Frames == {LiveFrame}

CapturedPhoto(f) == [dataUrl |-> f]

\* finalImageUrl === "": the image of no canvas.
EmptyUrl == [width |-> 0, height |-> 0, pixels |-> {}]

(***************************************************************************)
(* Layout compositor: geometry and raster.                                 *)
(*                                                                         *)
(* Coordinates are held in sixths of a pixel, so that the divisions by 2   *)
(* and by 3 of the placement code are exact; a rectangle covers the        *)
(* half-open region [x, x+width) x [y, y+height).                          *)
(***************************************************************************)
Scale == 2 * 3

canvasWidth == 1600

canvasHeight(tpl) == IF tpl = "strip" THEN 2400 ELSE 1600

Rect(x, y, w, h) == [x |-> x, y |-> y, width |-> w, height |-> h]

\* case "strip" with the offset of a photo being that of the photo before it.
StripPlacement_noAdvance(index, spacing) ==
  LET sp     == spacing * Scale
      width  == canvasWidth * Scale - sp * 4
      height == (canvasHeight("strip") * Scale - sp * 8) \div 3
  IN  Rect(sp * 2, sp * 2 + (height + sp * 2) * (IF index = 0 THEN 0 ELSE index - 1),
           width, height)

\* case "strip".
StripPlacement(index, spacing) ==
  LET sp     == spacing * Scale
      width  == canvasWidth * Scale - sp * 4
      height == (canvasHeight("strip") * Scale - sp * 8) \div 3
  IN  Rect(sp * 2, sp * 2 + (height + sp * 2) * index, width, height)

\* case "grid" with column and row exchanged.
GridPlacement_transposed(index, spacing) ==
  LET sp     == spacing * Scale
      width  == (canvasWidth * Scale - sp * 6) \div 2
      height == (canvasHeight("grid") * Scale - sp * 6) \div 2
  IN  Rect(sp * 2 + (width + sp * 2) * (index \div 2),
           sp * 2 + (height + sp * 2) * (index % 2),
           width, height)

\* case "grid".
GridPlacement(index, spacing) ==
  LET sp     == spacing * Scale
      width  == (canvasWidth * Scale - sp * 6) \div 2
      height == (canvasHeight("grid") * Scale - sp * 6) \div 2
  IN  Rect(sp * 2 + (width + sp * 2) * (index % 2),
           sp * 2 + (height + sp * 2) * (index \div 2),
           width, height)

\* case "collage" with the rows of the right half offset by index, not index - 1.
CollagePlacement_rowByIndex(index, spacing) ==
  LET W  == canvasWidth * Scale
      H  == canvasHeight("collage") * Scale
      sp == spacing * Scale
  IN  IF index = 0
        THEN Rect(sp * 2, sp * 2, W \div 2 - sp * 2, H - sp * 4)
        ELSE LET width  == W \div 2 - sp * 2
                 height == (H - sp * 6) \div 2
             IN  Rect(W \div 2 + sp, sp * 2 + (height + sp * 2) * index, width, height)

\* case "collage".
CollagePlacement(index, spacing) ==
  LET W  == canvasWidth * Scale
      H  == canvasHeight("collage") * Scale
      sp == spacing * Scale
  IN  IF index = 0
        THEN Rect(sp * 2, sp * 2, W \div 2 - sp * 2, H - sp * 4)
        ELSE LET width  == W \div 2 - sp * 2
                 height == (H - sp * 6) \div 2
             IN  Rect(W \div 2 + sp, sp * 2 + (height + sp * 2) * (index - 1),
                      width, height)

\* case "single".
SinglePlacement(index, spacing) ==
  LET sp == spacing * Scale
  IN  Rect(sp * 2, sp * 2, canvasWidth * Scale - sp * 4,
           canvasHeight("single") * Scale - sp * 4)

\* The switch of the onload callback: the placement of photo `index`.
Placement(tpl, index, spacing) ==
  CASE tpl = "strip" -> StripPlacement(index, spacing)
    [] tpl = "grid" -> GridPlacement(index, spacing)
    [] tpl = "collage" -> CollagePlacement(index, spacing)
    [] tpl = "single" -> SinglePlacement(index, spacing)
    [] OTHER -> Rect(0, 0, 0, 0)

\* The border fill inflating the photo rectangle by borderWidth, not twice it.
BorderRect_single(r, borderWidth) ==
  LET bw == borderWidth * Scale
  IN  Rect(r.x - bw, r.y - bw, r.width + bw * 2, r.height + bw * 2)

\* The rectangle filled in black under a photo when borderWidth > 0.
BorderRect(r, borderWidth) ==
  LET bw == borderWidth * Scale
  IN  Rect(r.x - bw * 2, r.y - bw * 2, r.width + bw * 4, r.height + bw * 4)

\* Colours: <<kind, frame, slot>>; a photo pixel is named by the frame drawn
\* and the slot (sequence index) whose rectangle it was scaled into.
Black == <<"#000000", 0, 0>>
White == <<"#ffffff", 0, 0>>
Gray  == <<"#6b7280", 0, 0>>
PhotoColor(photo, index) == <<"photo", photo.dataUrl, index>>

\* createPatternCanvas: a 20x20 tile, black at (0..9,0..9) and (10..19,10..19).
PatternColorAt(px, py) ==
  LET tx == (px \div Scale) % 20
      ty == (py \div Scale) % 20
  IN  IF (tx < 10) = (ty < 10) THEN Black ELSE White

\* The background fill of the canvas at a point.
BackgroundColorAt(bg, px, py) ==
  CASE bg = "white" -> White
    [] bg = "black" -> Black
    [] bg = "gray" -> Gray
    [] bg = "pattern" -> PatternColorAt(px, py)

\* What one onload callback draws, in order: the border, then the image.
DrawOps(tpl, style, photos, index) ==
  LET r == Placement(tpl, index, style.spacing)
      img == [rect |-> r, color |-> PhotoColor(photos[index + 1], index)]
  IN  IF style.borderWidth > 0
        THEN <<[rect |-> BorderRect(r, style.borderWidth), color |-> Black], img>>
        ELSE <<img>>

\* Everything drawn on the canvas after the callbacks of `order` ran in that order.
RECURSIVE Layers(_, _, _, _)
Layers(tpl, style, photos, order) ==
  IF order = <<>> THEN <<>>
  ELSE Layers(tpl, style, photos, SubSeq(order, 1, Len(order) - 1))
         \o DrawOps(tpl, style, photos, order[Len(order)])

Covers(r, px, py) ==
  /\ r.x <= px /\ px < r.x + r.width
  /\ r.y <= py /\ py < r.y + r.height

\* The colour of the canvas at a point: the last draw that covers it.
ColorAt(layers, bg, px, py) ==
  LET hits == {k \in 1..Len(layers) : Covers(layers[k].rect, px, py)}
  IN  IF hits = {} THEN BackgroundColorAt(bg, px, py)
      ELSE layers[CHOOSE k \in hits : \A j \in hits : j <= k].color

\* The canvas is constant on the cells cut by the edges of the rectangles
\* drawn, so its content is given by its colour at the corner of every cell.
EdgesX(layers, W) ==
  {0} \cup {e \in UNION {{layers[k].rect.x, layers[k].rect.x + layers[k].rect.width} :
                           k \in 1..Len(layers)} : 0 <= e /\ e < W}

EdgesY(layers, H) ==
  {0} \cup {e \in UNION {{layers[k].rect.y, layers[k].rect.y + layers[k].rect.height} :
                           k \in 1..Len(layers)} : 0 <= e /\ e < H}

\* canvas.toDataURL: the encoded content of the canvas.
toDataURL(tpl, style, bg, photos, order) ==
  LET layers == Layers(tpl, style, photos, order)
      W == canvasWidth * Scale
      H == canvasHeight(tpl) * Scale
  IN  [width |-> canvasWidth, height |-> canvasHeight(tpl),
       pixels |-> {<<px, py, ColorAt(layers, bg, px, py)>> :
                     px \in EdgesX(layers, W), py \in EdgesY(layers, H)}]

(***************************************************************************)
(* Camera stream life cycle.                                               *)
(***************************************************************************)
\* videoRef.current / canvasRef.current: the elements of the camera screen.
videoRef == currentScreen = "camera"

\* Tracks that are running: the stream streamRef holds and the leaked ones.
RunningStreams == (IF streamHeld THEN 1 ELSE 0) + leaked

\* The effect on currentScreen, run after a handler changed the screen: the
\* cleanup of the previous run (stopCamera), then startCamera on the camera
\* screen and stopCamera elsewhere.  stopCamera stops the tracks of the
\* stream streamRef holds and clears the ref; the video element of the
\* screen left is unmounted, the one of the camera screen is new.
CameraEffect ==
  /\ streamHeld' = FALSE
  /\ videoSrc' = FALSE
  /\ pendingAcq' = IF currentScreen' = "camera" THEN pendingAcq + 1 ELSE pendingAcq
  /\ UNCHANGED leaked

\* startCamera after the await: getUserMedia resolved with a new stream.
\* With a video element it is stored in streamRef (whatever the ref held
\* is forgotten, not stopped); without one it is dropped, still running.
AcquireResolve ==
  /\ pendingAcq > 0
  /\ pendingAcq' = pendingAcq - 1
  /\ IF videoRef
       THEN /\ videoSrc' = TRUE
            /\ streamHeld' = TRUE
            /\ leaked' = IF streamHeld THEN leaked + 1 ELSE leaked
       ELSE /\ leaked' = leaked + 1
            /\ UNCHANGED <<videoSrc, streamHeld>>
  /\ UNCHANGED <<currentScreen, selectedTemplate, capturedPhotos, currentPhotoIndex,
                 countdown, selectedBackground, templateStyle, finalImageUrl,
                 timers, requests, ctxAvailable>>

\* startCamera's catch: getUserMedia rejected; the error is logged.
AcquireFail ==
  /\ pendingAcq > 0
  /\ pendingAcq' = pendingAcq - 1
  /\ UNCHANGED <<currentScreen, selectedTemplate, capturedPhotos, currentPhotoIndex,
                 countdown, selectedBackground, templateStyle, finalImageUrl,
                 streamHeld, videoSrc, leaked, timers, requests, ctxAvailable>>

(***************************************************************************)
(* Capture sequencer.                                                      *)
(***************************************************************************)
\* What drawImage(video) and toDataURL give: a live frame when the video
\* element plays a stream, the empty 0x0 canvas otherwise.
VideoFrames == IF videoSrc THEN Frames ELSE {BlankFrame}

\* capturePhoto putting the new photo first: [newPhoto, ...prev].
capturePhoto_prepends ==
  IF videoRef /\ ctxAvailable
    THEN /\ \E f \in VideoFrames :
              capturedPhotos' = <<CapturedPhoto(f)>> \o capturedPhotos
         /\ currentPhotoIndex' = currentPhotoIndex + 1
    ELSE UNCHANGED <<capturedPhotos, currentPhotoIndex>>

\* capturePhoto without the test of its element refs.
capturePhoto_noRefCheck ==
  IF ctxAvailable
    THEN /\ \E f \in VideoFrames :
              capturedPhotos' = Append(capturedPhotos, CapturedPhoto(f))
         /\ currentPhotoIndex' = currentPhotoIndex + 1
    ELSE UNCHANGED <<capturedPhotos, currentPhotoIndex>>

\* capturePhoto: returns early without video/canvas element or 2d context,
\* otherwise appends the photo and advances the position counter.
capturePhoto ==
  IF videoRef /\ ctxAvailable
    THEN /\ \E f \in VideoFrames :
              capturedPhotos' = Append(capturedPhotos, CapturedPhoto(f))
         /\ currentPhotoIndex' = currentPhotoIndex + 1
    ELSE UNCHANGED <<capturedPhotos, currentPhotoIndex>>

\* startCountdown: setCountdown(3) and a new interval.
startCountdown ==
  /\ countdown' = CountdownStart
  /\ timers' = timers + 1

\* The updater with its threshold off by one (prev <= 2): the capture is made
\* on the second tick.
TimerTick_offByOne ==
  /\ timers > 0
  /\ IF countdown = NoCountdown \/ countdown <= 2
       THEN /\ timers' = timers - 1
            /\ capturePhoto
            /\ countdown' = NoCountdown
       ELSE /\ countdown' = countdown - 1
            /\ UNCHANGED <<timers, capturedPhotos, currentPhotoIndex>>
  /\ UNCHANGED <<currentScreen, selectedTemplate, selectedBackground, templateStyle,
                 finalImageUrl, streamHeld, videoSrc, pendingAcq, leaked, requests,
                 ctxAvailable>>

\* The updater without its clearInterval: the interval keeps ticking.
TimerTick_noClear ==
  /\ timers > 0
  /\ IF countdown = NoCountdown \/ countdown <= 1
       THEN /\ timers' = timers
            /\ capturePhoto
            /\ countdown' = NoCountdown
       ELSE /\ countdown' = countdown - 1
            /\ UNCHANGED <<timers, capturedPhotos, currentPhotoIndex>>
  /\ UNCHANGED <<currentScreen, selectedTemplate, selectedBackground, templateStyle,
                 finalImageUrl, streamHeld, videoSrc, pendingAcq, leaked, requests,
                 ctxAvailable>>

\* One tick of an interval: the updater given to setCountdown.
TimerTick ==
  /\ timers > 0
  /\ IF countdown = NoCountdown \/ countdown <= 1
       THEN /\ timers' = timers - 1
            /\ capturePhoto
            /\ countdown' = NoCountdown
       ELSE /\ countdown' = countdown - 1
            /\ UNCHANGED <<timers, capturedPhotos, currentPhotoIndex>>
  /\ UNCHANGED <<currentScreen, selectedTemplate, selectedBackground, templateStyle,
                 finalImageUrl, streamHeld, videoSrc, pendingAcq, leaked, requests,
                 ctxAvailable>>

\* resetPhotos without its second line: the position counter is kept.
resetPhotos_keepsIndex ==
  /\ capturedPhotos' = <<>>
  /\ UNCHANGED currentPhotoIndex

\* resetPhotos.
resetPhotos ==
  /\ capturedPhotos' = <<>>
  /\ currentPhotoIndex' = 0

(***************************************************************************)
(* Layout compositor: the promise and its decodes.                         *)
(***************************************************************************)
\* A composite in flight: the values its closure captured, the indices whose
\* onload ran (in the order they ran: loadedCount is the length) and the
\* indices whose decode settled, by load or by error.
NewRequest(tpl, photos, bg, style) ==
  [template |-> tpl, photos |-> photos, background |-> bg, style |-> style,
   order |-> <<>>, settled |-> {}]

RemoveAt(seq, k) == SubSeq(seq, 1, k - 1) \o SubSeq(seq, k + 1, Len(seq))

\* generateFinalImage without the check of an empty photo sequence.
generateFinalImage_noEmptyCheck(tpl, photos, bg, style) ==
  IF tpl = NULL \/ ~ctxAvailable
    THEN /\ finalImageUrl' = EmptyUrl
         /\ requests' = requests
    ELSE /\ requests' = Append(requests, NewRequest(tpl, photos, bg, style))
         /\ finalImageUrl' = finalImageUrl

\* generateFinalImage().then(setFinalImageUrl), up to the decode requests:
\* resolves to "" at once without template, photos or 2d context, otherwise
\* fills the background and sets img.src for every photo.
generateFinalImage(tpl, photos, bg, style) ==
  IF tpl = NULL \/ Len(photos) = 0 \/ ~ctxAvailable
    THEN /\ finalImageUrl' = EmptyUrl
         /\ requests' = requests
    ELSE /\ requests' = Append(requests, NewRequest(tpl, photos, bg, style))
         /\ finalImageUrl' = finalImageUrl

\* The effect on [currentScreen, capturedPhotos, selectedBackground,
\* templateStyle, generateFinalImage], run after a handler changed one of them.
ComposeEffect ==
  IF currentScreen' = "preview" /\ Len(capturedPhotos') > 0
    THEN generateFinalImage(selectedTemplate', capturedPhotos',
                            selectedBackground', templateStyle')
    ELSE UNCHANGED <<requests, finalImageUrl>>

\* The join off by one: resolves from the load before the last on.
Resolves_oneEarly(req, order) == Len(order) >= Len(req.photos) - 1

\* Whether the promise resolves in the onload that makes `order` the loads so far.
Resolves(req, order) == Len(order) = Len(req.photos)

\* A staleness guard: the value of a request is dropped unless the request
\* was made for the current template, photos, background and style.
setFinalImageUrl_ifCurrent(url, r) ==
  IF /\ requests[r].template = selectedTemplate
     /\ requests[r].photos = capturedPhotos
     /\ requests[r].background = selectedBackground
     /\ requests[r].style = templateStyle
    THEN finalImageUrl' = url
    ELSE UNCHANGED finalImageUrl

\* .then(setFinalImageUrl): the value request r resolved to is displayed.
setFinalImageUrl(url, r) == finalImageUrl' = url

\* img.onload of photo i of request r: draws border and image, counts the
\* load, and on the last one resolves with the encoded canvas.
ImageLoad(r, i) ==
  LET req == requests[r]
      order == Append(req.order, i)
      settled == req.settled \cup {i}
  IN  /\ i \notin req.settled
      /\ req.photos[i + 1].dataUrl # BlankFrame
      /\ IF Resolves(req, order)
           THEN setFinalImageUrl(toDataURL(req.template, req.style, req.background,
                                           req.photos, order), r)
           ELSE UNCHANGED finalImageUrl
      /\ requests' = IF settled = 0..(Len(req.photos) - 1)
                       THEN RemoveAt(requests, r)
                       ELSE [requests EXCEPT ![r] = [req EXCEPT !.order = order,
                                                                !.settled = settled]]
      /\ UNCHANGED <<currentScreen, selectedTemplate, capturedPhotos, currentPhotoIndex,
                     countdown, selectedBackground, templateStyle, streamHeld,
                     videoSrc, pendingAcq, leaked, timers, ctxAvailable>>

\* The decode of photo i of request r fails (the empty dataUrl is no image):
\* no onerror handler is set, nothing is drawn or counted.
ImageError(r, i) ==
  LET req == requests[r]
      settled == req.settled \cup {i}
  IN  /\ i \notin req.settled
      /\ req.photos[i + 1].dataUrl = BlankFrame
      /\ requests' = IF settled = 0..(Len(req.photos) - 1)
                       THEN RemoveAt(requests, r)
                       ELSE [requests EXCEPT ![r] = [req EXCEPT !.settled = settled]]
      /\ UNCHANGED <<currentScreen, selectedTemplate, capturedPhotos, currentPhotoIndex,
                     countdown, selectedBackground, templateStyle, finalImageUrl,
                     streamHeld, videoSrc, pendingAcq, leaked, timers, ctxAvailable>>

Decode ==
  \E r \in 1..Len(requests) : \E i \in 0..(Len(requests[r].photos) - 1) :
    ImageLoad(r, i) \/ ImageError(r, i)

(***************************************************************************)
(* Event handlers of the four screens.                                     *)
(***************************************************************************)
\* remainingPhotos of renderCameraScreen.
remainingPhotos ==
  IF selectedTemplate \in Templates
    THEN photoCount(selectedTemplate) - Len(capturedPhotos)
    ELSE 0

\* START SESSION.
StartSession ==
  /\ currentScreen = "start"
  /\ currentScreen' = "template"
  /\ UNCHANGED <<selectedTemplate, capturedPhotos, currentPhotoIndex, countdown,
                 selectedBackground, templateStyle, timers, ctxAvailable>>
  /\ CameraEffect /\ ComposeEffect

\* BACK on the template screen.
BackToStart ==
  /\ currentScreen = "template"
  /\ currentScreen' = "start"
  /\ UNCHANGED <<selectedTemplate, capturedPhotos, currentPhotoIndex, countdown,
                 selectedBackground, templateStyle, timers, ctxAvailable>>
  /\ CameraEffect /\ ComposeEffect

\* Click on a template card.
SelectTemplate(t) ==
  /\ currentScreen = "template"
  /\ selectedTemplate' = t
  /\ currentScreen' = "camera"
  /\ UNCHANGED <<capturedPhotos, currentPhotoIndex, countdown, selectedBackground,
                 templateStyle, timers, ctxAvailable>>
  /\ CameraEffect /\ ComposeEffect

\* TAKE PHOTO: disabled while counting down or when no photo remains.
TakePhoto ==
  /\ currentScreen = "camera"
  /\ ~(countdown # NoCountdown \/ remainingPhotos = 0)
  /\ startCountdown
  /\ UNCHANGED <<currentScreen, selectedTemplate, capturedPhotos, currentPhotoIndex,
                 selectedBackground, templateStyle, finalImageUrl, streamHeld,
                 videoSrc, pendingAcq, leaked, requests, ctxAvailable>>

\* RETRY.
Retry ==
  /\ currentScreen = "camera"
  /\ resetPhotos
  /\ UNCHANGED <<currentScreen, selectedTemplate, countdown, selectedBackground,
                 templateStyle, streamHeld, videoSrc, pendingAcq, leaked, timers,
                 ctxAvailable>>
  /\ ComposeEffect

\* PREVIEW & CUSTOMIZE: rendered when no photo remains.
GoPreview ==
  /\ currentScreen = "camera"
  /\ remainingPhotos = 0
  /\ currentScreen' = "preview"
  /\ UNCHANGED <<selectedTemplate, capturedPhotos, currentPhotoIndex, countdown,
                 selectedBackground, templateStyle, timers, ctxAvailable>>
  /\ CameraEffect /\ ComposeEffect

\* BACK TO TEMPLATES.
BackToTemplates ==
  /\ currentScreen = "camera"
  /\ currentScreen' = "template"
  /\ UNCHANGED <<selectedTemplate, capturedPhotos, currentPhotoIndex, countdown,
                 selectedBackground, templateStyle, timers, ctxAvailable>>
  /\ CameraEffect /\ ComposeEffect

\* The background select.
SetBackground(bg) ==
  /\ currentScreen = "preview"
  /\ bg # selectedBackground
  /\ selectedBackground' = bg
  /\ UNCHANGED <<currentScreen, selectedTemplate, capturedPhotos, currentPhotoIndex,
                 countdown, templateStyle, streamHeld, videoSrc, pendingAcq, leaked,
                 timers, ctxAvailable>>
  /\ ComposeEffect

\* The slider storing the canvas width of the border, twice its value.
SetBorderWidth_doubled(v) ==
  /\ currentScreen = "preview"
  /\ v # templateStyle.borderWidth
  /\ templateStyle' = [templateStyle EXCEPT !.borderWidth = v * 2]
  /\ UNCHANGED <<currentScreen, selectedTemplate, capturedPhotos, currentPhotoIndex,
                 countdown, selectedBackground, streamHeld, videoSrc, pendingAcq,
                 leaked, timers, ctxAvailable>>
  /\ ComposeEffect

\* The BORDER WIDTH slider (max 10, step 1).
SetBorderWidth(v) ==
  /\ currentScreen = "preview"
  /\ v # templateStyle.borderWidth
  /\ templateStyle' = [templateStyle EXCEPT !.borderWidth = v]
  /\ UNCHANGED <<currentScreen, selectedTemplate, capturedPhotos, currentPhotoIndex,
                 countdown, selectedBackground, streamHeld, videoSrc, pendingAcq,
                 leaked, timers, ctxAvailable>>
  /\ ComposeEffect

\* The SPACING slider (max 20, step 1).
SetSpacing(v) ==
  /\ currentScreen = "preview"
  /\ v # templateStyle.spacing
  /\ templateStyle' = [templateStyle EXCEPT !.spacing = v]
  /\ UNCHANGED <<currentScreen, selectedTemplate, capturedPhotos, currentPhotoIndex,
                 countdown, selectedBackground, streamHeld, videoSrc, pendingAcq,
                 leaked, timers, ctxAvailable>>
  /\ ComposeEffect

\* NEW SESSION without its setCurrentPhotoIndex(0).
NewSession_keepsIndex ==
  /\ currentScreen = "preview"
  /\ capturedPhotos' = <<>>
  /\ selectedTemplate' = NULL
  /\ currentScreen' = "start"
  /\ UNCHANGED <<currentPhotoIndex, countdown, selectedBackground, templateStyle,
                 timers, ctxAvailable>>
  /\ CameraEffect /\ ComposeEffect

\* NEW SESSION.
NewSession ==
  /\ currentScreen = "preview"
  /\ capturedPhotos' = <<>>
  /\ currentPhotoIndex' = 0
  /\ selectedTemplate' = NULL
  /\ currentScreen' = "start"
  /\ UNCHANGED <<countdown, selectedBackground, templateStyle, timers, ctxAvailable>>
  /\ CameraEffect /\ ComposeEffect

(***************************************************************************)
(* The page as the user drives it.                                         *)
(***************************************************************************)
Init ==
  /\ currentScreen = "start"
  /\ selectedTemplate = NULL
  /\ capturedPhotos = <<>>
  /\ currentPhotoIndex = 0
  /\ countdown = NoCountdown
  /\ selectedBackground = InitialBackground
  /\ templateStyle = InitialStyle
  /\ finalImageUrl = EmptyUrl
  /\ streamHeld = FALSE
  /\ videoSrc = FALSE
  /\ pendingAcq = 0
  /\ leaked = 0
  /\ timers = 0
  /\ requests = <<>>
  /\ ctxAvailable = TRUE

\* The environment of the page under Spec: the user starts a countdown only
\* while the photo and timer bounds leave room, acts on the preview screen only when
\* no composite is in flight, and moves one control of the preview screen at
\* a time, between its initial value and one other value, while the other
\* two controls are at their initial values.
Next ==
  \/ StartSession
  \/ BackToStart
  \/ \E t \in Templates : pendingAcq < MaxPending /\ SelectTemplate(t)
  \/ AcquireResolve /\ leaked' <= MaxLeaked
  \/ AcquireFail
  \/ Len(capturedPhotos) + timers < MaxPhotos /\ timers < MaxTimers /\ TakePhoto
  \/ TimerTick
  \/ Retry
  \/ requests = <<>> /\ GoPreview
  \/ BackToTemplates
  \/ \E bg \in {InitialBackground, "black"} :
       requests = <<>> /\ templateStyle = InitialStyle /\ SetBackground(bg)
  \/ \E v \in {InitialStyle.borderWidth, 0} :
       /\ requests = <<>> /\ selectedBackground = InitialBackground
       /\ templateStyle.spacing = InitialStyle.spacing
       /\ SetBorderWidth(v)
  \/ \E v \in {InitialStyle.spacing, MaxSpacing} :
       /\ requests = <<>> /\ selectedBackground = InitialBackground
       /\ templateStyle.borderWidth = InitialStyle.borderWidth
       /\ SetSpacing(v)
  \/ requests = <<>> /\ NewSession
  \/ Decode

Spec == Init /\ [][Next]_vars

\* The page up to its camera screen, with its intervals firing: the user
\* navigates between the start, template and camera screens, takes and resets
\* photos, and an interval that is not cleared ticks again a second later,
\* whatever else happens on the page.
NextCapture ==
  \/ StartSession
  \/ BackToStart
  \/ \E t \in Templates : pendingAcq < MaxPending /\ SelectTemplate(t)
  \/ AcquireResolve /\ leaked' <= MaxLeaked
  \/ AcquireFail
  \/ Len(capturedPhotos) + timers < MaxPhotos /\ timers < MaxTimers /\ TakePhoto
  \/ TimerTick
  \/ Retry
  \/ BackToTemplates

SpecLive == Init /\ [][NextCapture]_vars /\ WF_vars(TimerTick)

(***************************************************************************)
(* The page with its sequencer also called directly: startCountdown is     *)
(* invoked on the camera screen without the disabled check of the button.  *)
(***************************************************************************)
StartCountdownCall ==
  /\ currentScreen = "camera"
  /\ startCountdown
  /\ UNCHANGED <<currentScreen, selectedTemplate, capturedPhotos, currentPhotoIndex,
                 selectedBackground, templateStyle, finalImageUrl, streamHeld,
                 videoSrc, pendingAcq, leaked, requests, ctxAvailable>>

NextDirect ==
  \/ Next
  \/ Len(capturedPhotos) + timers < MaxPhotos /\ timers < MaxTimers /\ StartCountdownCall

SpecDirect == Init /\ [][NextDirect]_vars

(***************************************************************************)
(* The compositor on its own: generateFinalImage is invoked once on inputs *)
(* drawn from their whole ranges, in a state the page is in on the start   *)
(* or template screen of a later session (the final image of the session   *)
(* before, a single photo, is still displayed), and its decodes complete   *)
(* in any order.                                                           *)
(***************************************************************************)
Styles ==
  [borderWidth : 0..MaxBorderWidth, spacing : 0..MaxSpacing, cornerRadius : {0}]

\* n photos of live frames, and the same with a last photo taken of no stream.
LivePhotos(n) == [k \in 1..n |-> CapturedPhoto(LiveFrame)]

PhotoSequences ==
  {LivePhotos(n) : n \in 0..MaxPhotoCount}
    \cup {Append(LivePhotos(n), CapturedPhoto(BlankFrame)) : n \in 0..(MaxPhotoCount - 1)}

\* The sequence 0, 1, .., n-1: the decodes completing in sequence order.
InOrder(n) == [k \in 1..n |-> k - 1]

PreviousImage(style, bg) ==
  toDataURL("single", style, bg, <<CapturedPhoto(EarlierFrame)>>, InOrder(1))

GenerateCall ==
  /\ generateFinalImage(selectedTemplate, capturedPhotos, selectedBackground, templateStyle)
  /\ UNCHANGED <<currentScreen, selectedTemplate, capturedPhotos, currentPhotoIndex,
                 countdown, selectedBackground, templateStyle, streamHeld, videoSrc,
                 pendingAcq, leaked, timers, ctxAvailable>>

InitCompose ==
  /\ selectedTemplate \in Templates \cup {NULL}
  /\ capturedPhotos \in PhotoSequences
  /\ selectedTemplate = NULL => capturedPhotos = <<>>
  /\ currentScreen = IF selectedTemplate = NULL THEN "start" ELSE "template"
  /\ currentPhotoIndex = Len(capturedPhotos)
  /\ countdown = NoCountdown
  /\ selectedBackground \in Backgrounds
  /\ templateStyle \in Styles
  /\ finalImageUrl = PreviousImage(templateStyle, selectedBackground)
  /\ streamHeld = FALSE
  /\ videoSrc = FALSE
  /\ pendingAcq = 0
  /\ leaked = 0
  /\ timers = 0
  /\ requests = <<>>
  /\ ctxAvailable \in BOOLEAN

NextCompose ==
  \/ /\ requests = <<>>
     /\ finalImageUrl = PreviousImage(templateStyle, selectedBackground)
     /\ GenerateCall
  \/ Decode

SpecCompose == InitCompose /\ [][NextCompose]_vars

(***************************************************************************)
(* The preview screen on its own: the page right after PREVIEW & CUSTOMIZE *)
(* of a first session with the single template, the first composite in     *)
(* flight, and the user moving the controls while composites are in        *)
(* flight.                                                                 *)
(***************************************************************************)
InitPreview ==
  /\ currentScreen = "preview"
  /\ selectedTemplate = "single"
  /\ capturedPhotos = LivePhotos(photoCount(selectedTemplate))
  /\ currentPhotoIndex = Len(capturedPhotos)
  /\ countdown = NoCountdown
  /\ selectedBackground = InitialBackground
  /\ templateStyle = InitialStyle
  /\ finalImageUrl = EmptyUrl
  /\ streamHeld = FALSE
  /\ videoSrc = FALSE
  /\ pendingAcq = 0
  /\ leaked = 0
  /\ timers = 0
  /\ requests = <<NewRequest(selectedTemplate, capturedPhotos, selectedBackground,
                             templateStyle)>>
  /\ ctxAvailable = TRUE

NextPreview ==
  \/ \E bg \in Backgrounds :
       Len(requests) < MaxRequests /\ SetBackground(bg)
  \/ \E v \in {InitialStyle.borderWidth, MaxBorderWidth} :
       Len(requests) < MaxRequests /\ SetBorderWidth(v)
  \/ \E v \in {InitialStyle.spacing, 0} :
       Len(requests) < MaxRequests /\ SetSpacing(v)
  \/ Decode

SpecPreview == InitPreview /\ [][NextPreview]_vars

(***************************************************************************)
(* Claims about the capture sequencer and the camera stream.               *)
(***************************************************************************)

\* C1: in every reachable state the number of captured photos is at most the
\* required photo count of the selected template.
C1_SequenceBound ==
  selectedTemplate \in Templates =>
    Len(capturedPhotos) <= photoCount(selectedTemplate)

\* C2: a call of startCountdown while a countdown is running is a no-op: the
\* remaining count is not reset and no second timer is started.
C2_ReentrantNoOp ==
  [][(StartCountdownCall /\ countdown # NoCountdown) =>
       UNCHANGED <<countdown, timers, capturedPhotos>>]_vars

\* A tick of the running countdown, by the count it finds.
TickAt(n) == TimerTick /\ countdown = n

AppendsOnePhoto ==
  /\ Len(capturedPhotos') = Len(capturedPhotos) + 1
  /\ SubSeq(capturedPhotos', 1, Len(capturedPhotos)) = capturedPhotos
  /\ currentPhotoIndex' = currentPhotoIndex + 1

CountsDown ==
  /\ TakePhoto => (countdown' = 3 /\ UNCHANGED capturedPhotos)
  /\ (TickAt(3) \/ TickAt(2)) =>
       (countdown' = countdown - 1 /\ UNCHANGED <<capturedPhotos, timers>>)

\* C3 as stated: a countdown started from the camera screen shows 3, 2, 1,
\* appends nothing before its third tick, and its third tick appends exactly
\* one photo and returns the countdown to null.
C3_ThirdTickCaptures ==
  [][/\ CountsDown
     /\ TickAt(1) => (AppendsOnePhoto /\ countdown' = NoCountdown)]_vars

\* C3 as amended: the third tick appends exactly one photo when the video and
\* canvas elements are still mounted and a 2d context is available at that
\* tick, and appends nothing otherwise; either way the countdown returns to
\* null and the timer is cleared.
C3_ThirdTickCapturesIfMounted ==
  [][/\ CountsDown
     /\ TickAt(1) =>
          /\ countdown' = NoCountdown /\ timers' = timers - 1
          /\ IF videoRef /\ ctxAvailable
               THEN AppendsOnePhoto
               ELSE UNCHANGED <<capturedPhotos, currentPhotoIndex>>]_vars

\* The first countdown of a session has run out on the camera screen and its
\* third tick has appended the one photo of the sequence.
C3_Witness ==
  /\ currentScreen = "camera" /\ ctxAvailable
  /\ countdown = NoCountdown /\ timers = 0
  /\ Len(capturedPhotos) = 1 /\ currentPhotoIndex = 1

\* C4: without a live video frame source capturePhoto changes neither the
\* photo sequence nor the position counter.
C4_NoSourceNoCapture ==
  [][(TimerTick /\ ~videoSrc) => UNCHANGED <<capturedPhotos, currentPhotoIndex>>]_vars

\* C5: at most one acquired stream has running tracks, and off the camera
\* screen with every acquisition settled none has.
C5_StreamExclusiveReleased ==
  /\ RunningStreams <= 1
  /\ (currentScreen # "camera" /\ pendingAcq = 0) => RunningStreams = 0

\* C9: resetPhotos empties the photo sequence and zeroes the position counter
\* in whatever state it is invoked, changes nothing else, and the next
\* capture after it is the photo at index 0.
C9_ResetFrame ==
  [][/\ Retry =>
          /\ capturedPhotos' = <<>> /\ currentPhotoIndex' = 0
          /\ UNCHANGED <<currentScreen, selectedTemplate, templateStyle,
                         selectedBackground, streamHeld, videoSrc, pendingAcq,
                         leaked, countdown, timers, requests, finalImageUrl>>
     /\ (Retry \/ (currentPhotoIndex = 0 /\ TimerTick)) =>
          /\ currentPhotoIndex' = Len(capturedPhotos')
          /\ currentPhotoIndex' <= 1]_vars

\* resetPhotos is invoked here mid-sequence, while a countdown is running and
\* the camera stream is held.
C9_Witness ==
  /\ currentScreen = "camera" /\ streamHeld
  /\ selectedTemplate \in Templates
  /\ 0 < Len(capturedPhotos) /\ Len(capturedPhotos) < photoCount(selectedTemplate)
  /\ countdown # NoCountdown /\ timers > 0

(***************************************************************************)
(* Claims about the layout compositor.                                     *)
(***************************************************************************)
ValidInputs == selectedTemplate # NULL /\ Len(capturedPhotos) > 0 /\ ctxAvailable

\* The image request r resolves with when the load of photo i is its last.
ImageResolved(r, i) ==
  toDataURL(requests[r].template, requests[r].style, requests[r].background,
            requests[r].photos, Append(requests[r].order, i))

IsLastLoad(r) == Len(requests[r].order) + 1 = Len(requests[r].photos)

\* C6: a composite over N >= 1 photos issues N decodes, counts each load, and
\* resolves in the Nth load and in no step before it, whatever the order of
\* the loads.
C6_ResolvesOnNthLoad ==
  [][/\ (GenerateCall /\ ValidInputs) =>
          /\ requests' = <<NewRequest(selectedTemplate, capturedPhotos,
                                      selectedBackground, templateStyle)>>
          /\ UNCHANGED finalImageUrl
     /\ \A r \in 1..Len(requests) : \A i \in 0..(Len(requests[r].photos) - 1) :
          /\ ImageLoad(r, i) =>
               IF IsLastLoad(r)
                 THEN finalImageUrl' = ImageResolved(r, i) /\ requests' = <<>>
                 ELSE /\ UNCHANGED finalImageUrl
                      /\ Len(requests') = Len(requests) =>
                           requests'[r].order = Append(requests[r].order, i)
          /\ ImageError(r, i) => UNCHANGED finalImageUrl]_vars

\* A composite of four photos on the grid has resolved after its decodes
\* completed in the reverse of the sequence order.
C6_Witness ==
  /\ selectedTemplate = "grid" /\ Len(capturedPhotos) = 4 /\ requests = <<>>
  /\ finalImageUrl = toDataURL("grid", templateStyle, selectedBackground,
                               capturedPhotos, <<3, 2, 1, 0>>)
  /\ finalImageUrl # toDataURL("grid", templateStyle, selectedBackground,
                               capturedPhotos, InOrder(4))

\* C7: the canvas a composite resolves with is the one the decodes completing
\* in sequence order give, for every template with its full photo sequence
\* and every style and background.
C7_OrderIndependent ==
  (/\ requests = <<>>
   /\ selectedTemplate \in Templates
   /\ Len(capturedPhotos) = photoCount(selectedTemplate)
   /\ finalImageUrl # EmptyUrl
   /\ finalImageUrl # PreviousImage(templateStyle, selectedBackground)) =>
    finalImageUrl = toDataURL(selectedTemplate, templateStyle, selectedBackground,
                              capturedPhotos, InOrder(Len(capturedPhotos)))

\* C8: without a template, without photos or without a 2d context
\* generateFinalImage resolves to the empty result at once and issues no
\* decode; with all three it issues its decodes and resolves nothing yet.
C8_EmptyInputs ==
  [][GenerateCall =>
       IF ValidInputs
         THEN Len(requests') = Len(requests) + 1 /\ UNCHANGED finalImageUrl
         ELSE finalImageUrl' = EmptyUrl /\ UNCHANGED requests]_vars

\* generateFinalImage was invoked with a template selected and a context
\* available but no photo, and the displayed image was set to the empty one.
C8_Witness ==
  /\ selectedTemplate \in Templates /\ capturedPhotos = <<>> /\ ctxAvailable
  /\ finalImageUrl = EmptyUrl /\ requests = <<>>

ControlMoved ==
  \/ \E bg \in Backgrounds : SetBackground(bg)
  \/ \E v \in 0..MaxBorderWidth : SetBorderWidth(v)
  \/ \E v \in 0..MaxSpacing : SetSpacing(v)

\* C10: moving a control adds a composite and cancels none in flight, and
\* whenever a composite resolves its image becomes the displayed one, be it
\* the latest requested or not and be its parameters the current ones or not.
C10_LastResolveWins ==
  [][/\ ControlMoved =>
          /\ Len(requests') = Len(requests) + 1
          /\ SubSeq(requests', 1, Len(requests)) = requests
     /\ \A r \in 1..Len(requests) : \A i \in 0..(Len(requests[r].photos) - 1) :
          (ImageLoad(r, i) /\ IsLastLoad(r)) => finalImageUrl' = ImageResolved(r, i)]_vars

\* No composite is in flight and the displayed image is not the composite of
\* the current background and style: an earlier request resolved last.
C10_Witness ==
  /\ currentScreen = "preview" /\ requests = <<>>
  /\ finalImageUrl # EmptyUrl
  /\ finalImageUrl # toDataURL(selectedTemplate, templateStyle, selectedBackground,
                               capturedPhotos, InOrder(Len(capturedPhotos)))

(***************************************************************************)
(* Claims about the photo sequence and the countdown timers.               *)
(***************************************************************************)

\* C11: the photo sequence is append-only between resets: a capture adds
\* exactly one photo at the end and leaves the photos before it as they were,
\* and the only other change is the clear by resetPhotos or by NEW SESSION.
C11_AppendOnly ==
  [][/\ capturedPhotos' # capturedPhotos =>
          \/ /\ TimerTick
             /\ Len(capturedPhotos') = Len(capturedPhotos) + 1
             /\ SubSeq(capturedPhotos', 1, Len(capturedPhotos)) = capturedPhotos
          \/ /\ Retry \/ NewSession
             /\ capturedPhotos' = <<>>
     /\ (TimerTick /\ countdown <= 1 /\ videoRef /\ ctxAvailable) =>
          Len(capturedPhotos') = Len(capturedPhotos) + 1]_vars

\* Two captures of one sequence with different contents: the first taken of
\* no stream, the second of the live stream.
C11_Witness ==
  /\ Len(capturedPhotos) >= 2
  /\ capturedPhotos[1] = CapturedPhoto(BlankFrame)
  /\ capturedPhotos[2] = CapturedPhoto(LiveFrame)

\* C12: every timer startCountdown creates is cleared exactly once, by the
\* tick that finds the count at zero and attempts the capture; no timer is
\* cleared otherwise, and no timer runs forever.
C12_TimerClearedOnce ==
  /\ [][/\ timers' > timers => (TakePhoto /\ timers' = timers + 1)
        /\ timers' < timers =>
             /\ TimerTick /\ countdown <= 1
             /\ timers' = timers - 1 /\ countdown' = NoCountdown
             /\ IF videoRef /\ ctxAvailable
                  THEN AppendsOnePhoto
                  ELSE UNCHANGED <<capturedPhotos, currentPhotoIndex>>
        /\ (TimerTick /\ countdown <= 1) => timers' = timers - 1]_vars
  /\ (timers > 0 ~> timers = 0)

\* Two countdowns of one sequence have run out: both timers were created and
\* cleared.
C12_Witness ==
  /\ timers = 0 /\ countdown = NoCountdown
  /\ Len(capturedPhotos) = 2 /\ currentPhotoIndex = 2

(***************************************************************************)
(* Claims about the geometry of the layouts.                               *)
(***************************************************************************)
\* The displayed image is a composite of the current template with its full
\* sequence of live photos, under the current style and background.
Composed ==
  /\ selectedTemplate \in Templates
  /\ capturedPhotos = LivePhotos(photoCount(selectedTemplate))
  /\ requests = <<>>
  /\ finalImageUrl # EmptyUrl
  /\ finalImageUrl # PreviousImage(templateStyle, selectedBackground)

\* The placement of photo i under the current template and spacing, and the
\* border fill under it.
Cell(i) == Placement(selectedTemplate, i, templateStyle.spacing)

Frame(i) == BorderRect(Cell(i), templateStyle.borderWidth)

Overlap(r, q) ==
  /\ r.x < q.x + q.width /\ q.x < r.x + r.width
  /\ r.y < q.y + q.height /\ q.y < r.y + r.height

Inside(r, W, H) ==
  /\ 0 <= r.x /\ r.x + r.width <= W * Scale
  /\ 0 <= r.y /\ r.y + r.height <= H * Scale

\* The image shows photo i with its top-left corner at that of its placement.
ShowsPhotoAt(i) ==
  <<Cell(i).x, Cell(i).y, PhotoColor(capturedPhotos[i + 1], i)>> \in finalImageUrl.pixels

\* C13: on the grid with 4 photos, for every spacing, the canvas is 1600x1600
\* and the placements are four disjoint rectangles of width and height
\* (1600 - 6*spacing)/2 inside the canvas, photo i in column i mod 2 and row
\* i div 2.
C13_GridLayout ==
  (selectedTemplate = "grid" /\ Len(capturedPhotos) = 4) =>
    LET sp == templateStyle.spacing * Scale
    IN  /\ \A i \in 0..3 :
             /\ 2 * Cell(i).width = 1600 * Scale - 6 * sp
             /\ 2 * Cell(i).height = 1600 * Scale - 6 * sp
             /\ Cell(i).x = 2 * sp + (i % 2) * (Cell(i).width + 2 * sp)
             /\ Cell(i).y = 2 * sp + (i \div 2) * (Cell(i).height + 2 * sp)
             /\ Inside(Cell(i), 1600, 1600)
        /\ \A i, j \in 0..3 : i # j => ~Overlap(Cell(i), Cell(j))
        /\ Cell(0).x + Cell(0).width <= Cell(1).x
        /\ Cell(0).y + Cell(0).height <= Cell(2).y
        /\ Composed =>
             /\ finalImageUrl.width = 1600 /\ finalImageUrl.height = 1600
             /\ templateStyle.borderWidth = 0 => \A i \in 0..3 : ShowsPhotoAt(i)

\* A grid of four photos composed at the largest spacing, without borders.
C13_Witness ==
  /\ Composed /\ selectedTemplate = "grid"
  /\ templateStyle.spacing = MaxSpacing /\ templateStyle.borderWidth = 0

\* C14: on the strip with 3 photos the canvas is 1600x2400 and the placements
\* are three rectangles of width 1600 - 4*spacing and height
\* (2400 - 8*spacing)/3 stacked without overlap, the offset growing with the
\* index and the last one ending inside the canvas.
C14_StripLayout ==
  (selectedTemplate = "strip" /\ Len(capturedPhotos) = 3) =>
    LET sp == templateStyle.spacing * Scale
    IN  /\ \A i \in 0..2 :
             /\ Cell(i).width = 1600 * Scale - 4 * sp
             /\ 3 * Cell(i).height = 2400 * Scale - 8 * sp
             /\ templateStyle.spacing = 4 => 3 * Cell(i).height = (2400 - 32) * Scale
             /\ Cell(i).x = 2 * sp
             /\ Inside(Cell(i), 1600, 2400)
        /\ Cell(0).y = 2 * sp
        /\ \A i \in 0..1 : Cell(i + 1).y = Cell(i).y + Cell(i).height + 2 * sp
        /\ \A i, j \in 0..2 : i # j => ~Overlap(Cell(i), Cell(j))
        /\ Composed =>
             /\ finalImageUrl.width = 1600 /\ finalImageUrl.height = 2400
             /\ templateStyle.borderWidth = 0 => \A i \in 0..2 : ShowsPhotoAt(i)

\* A strip of three photos composed at the initial spacing 4, without borders.
C14_Witness ==
  /\ Composed /\ selectedTemplate = "strip"
  /\ templateStyle.spacing = InitialStyle.spacing /\ templateStyle.borderWidth = 0

\* The collage layout over n photos: photo 0 fills the left half between the
\* margins, photos 1..n-1 lie in the right half in n-1 equal rows that start
\* where photo 0 starts and end where it ends, and no two placements overlap.
CollageLayout(n) ==
  LET sp == templateStyle.spacing * Scale
      W  == 1600 * Scale
      H  == 1600 * Scale
  IN  /\ Cell(0) = Rect(2 * sp, 2 * sp, W \div 2 - 2 * sp, H - 4 * sp)
      /\ \A i \in 1..(n - 1) :
           /\ W \div 2 <= Cell(i).x /\ Cell(i).x + Cell(i).width <= W
           /\ Cell(i).height = Cell(1).height
      /\ n > 1 =>
           /\ Cell(1).y = Cell(0).y
           /\ Cell(n - 1).y + Cell(n - 1).height = Cell(0).y + Cell(0).height
      /\ \A i \in 1..(n - 2) : Cell(i).y + Cell(i).height <= Cell(i + 1).y
      /\ \A i, j \in 0..(n - 1) : i # j => ~Overlap(Cell(i), Cell(j))

C16_BorderInflation ==
  selectedTemplate \in Templates =>
    \A i \in 0..(Len(capturedPhotos) - 1) :
      LET ops == DrawOps(selectedTemplate, templateStyle, capturedPhotos, i)
          b   == templateStyle.borderWidth * Scale
          img == [rect |-> Cell(i), color |-> PhotoColor(capturedPhotos[i + 1], i)]
      IN  /\ IF templateStyle.borderWidth = 0
               THEN ops = <<img>>
               ELSE /\ Len(ops) = 2 /\ ops[2] = img
                    /\ ops[1].color = Black
                    /\ ops[1].rect = Rect(Cell(i).x - 2 * b, Cell(i).y - 2 * b,
                                          Cell(i).width + 4 * b, Cell(i).height + 4 * b)
          /\ (Composed /\ 1 <= templateStyle.borderWidth
                /\ 2 * templateStyle.borderWidth <= templateStyle.spacing) =>
               /\ <<Cell(i).x - 2 * b, Cell(i).y - 2 * b, Black>> \in finalImageUrl.pixels
               /\ ShowsPhotoAt(i)

\* A collage composed with the widest border, at the largest spacing.
C16_Witness ==
  /\ Composed /\ selectedTemplate = "collage"
  /\ templateStyle.borderWidth = MaxBorderWidth
  /\ templateStyle.spacing = MaxSpacing

\* C17: in a composed image with borderWidth >= 1 every photo is wholly
\* visible and framed in black by 2*borderWidth on all four sides: the frame
\* lies inside the canvas and nothing else is drawn over photo or frame.
C17_UniformFrame ==
  (Composed /\ templateStyle.borderWidth >= 1) =>
    \A i \in 0..(Len(capturedPhotos) - 1) :
      /\ Inside(Frame(i), finalImageUrl.width, finalImageUrl.height)
      /\ \A p \in finalImageUrl.pixels :
           /\ Covers(Cell(i), p[1], p[2]) => p[3] = PhotoColor(capturedPhotos[i + 1], i)
           /\ (Covers(Frame(i), p[1], p[2]) /\ ~Covers(Cell(i), p[1], p[2])) =>
                p[3] = Black

(***************************************************************************)
(* Claims about the preview screen and the sessions.                       *)
(***************************************************************************)

\* C18: moving the border width, the spacing or the background leaves the
\* photo sequence, the position counter, the template and the screen as they
\* are, and borderWidth stays in 0..10 and spacing in 0..20.
C18_StyleFrame ==
  /\ [](templateStyle.borderWidth \in 0..10 /\ templateStyle.spacing \in 0..20)
  /\ [][ControlMoved =>
          UNCHANGED <<capturedPhotos, currentPhotoIndex, selectedTemplate,
                      currentScreen>>]_vars

\* All three controls have been moved: the border width to its maximum, the
\* spacing to its minimum and the background to the pattern.
C18_Witness ==
  /\ currentScreen = "preview" /\ capturedPhotos = LivePhotos(1)
  /\ templateStyle.borderWidth = MaxBorderWidth /\ templateStyle.spacing = 0
  /\ selectedBackground = "pattern"

\* C19: on the preview screen a template is selected and the photo sequence
\* has exactly the length the template requires.
C19_PreviewComplete ==
  currentScreen = "preview" =>
    /\ selectedTemplate \in Templates
    /\ Len(capturedPhotos) = photoCount(selectedTemplate)

\* The preview screen was entered with a countdown running: its timer has
\* ticked down to 1 there and its last tick is due.
C19_Witness ==
  /\ currentScreen = "preview"
  /\ timers = 1 /\ countdown = 1

\* The sequence indices of the photos an image shows.
PhotoSlots(url) == {p[3][3] : p \in {q \in url.pixels : q[3][1] = "photo"}}

\* C20: an image displayed on the preview screen is a composite of the
\* session's own photos under its template, never one kept from an earlier
\* session: it has the canvas of the selected template and shows exactly the
\* photos of the current sequence.
C20_NoEarlierSessionImage ==
  (currentScreen = "preview" /\ finalImageUrl # EmptyUrl) =>
    /\ finalImageUrl.height = canvasHeight(selectedTemplate)
    /\ PhotoSlots(finalImageUrl) = 0..(Len(capturedPhotos) - 1)

\* C21: the position counter equals the length of the photo sequence in every
\* reachable state: a capture adds one to both, resetPhotos and NEW SESSION
\* zero both, and nothing else changes either.
C21_IndexIsLength ==
  /\ [](currentPhotoIndex = Len(capturedPhotos))
  /\ [][/\ (capturedPhotos' # capturedPhotos \/ currentPhotoIndex' # currentPhotoIndex) =>
             (TimerTick \/ Retry \/ NewSession)
        /\ (Retry \/ NewSession) => (capturedPhotos' = <<>> /\ currentPhotoIndex' = 0)
        /\ TimerTick =>
             /\ currentPhotoIndex' - currentPhotoIndex
                  = Len(capturedPhotos') - Len(capturedPhotos)
             /\ currentPhotoIndex' - currentPhotoIndex \in {0, 1}]_vars

\* A photo has been captured in a later session: the image of the session
\* before is still held, NEW SESSION has zeroed both and a capture followed.
C21_Witness ==
  /\ currentScreen = "camera" /\ finalImageUrl # EmptyUrl
  /\ Len(capturedPhotos) = 1 /\ currentPhotoIndex = 1

\* The displayed image is the one a composite resolved with, neither empty
\* nor the image kept from before the invocation.
Resolved(url) ==
  url # EmptyUrl /\ url # PreviousImage(templateStyle, selectedBackground)

\* C22: a composite over a template and at least one photo resolves exactly
\* once: the decode that settles its last photo, by load or by error, leaves
\* it resolved, and once resolved no further decode of it sets the image.
C22_ResolvesExactlyOnce ==
  [][/\ (Decode /\ requests # <<>> /\ requests' = <<>>) => Resolved(finalImageUrl')
     /\ (Decode /\ Resolved(finalImageUrl)) => UNCHANGED finalImageUrl]_vars

====
